---- MODULE Spec2Model ----
(***************************************************************************)
(* Session orchestration of the chat client in src/Jamacian A.I/App.jsx:   *)
(* the App component's state (useState hooks), its event handlers, and the *)
(* three asynchronous collaborators it drives: the chat backend (fetch),   *)
(* the speech recognizer (webkitSpeechRecognition) and the speech          *)
(* synthesizer (speechSynthesis).                                          *)
(*                                                                         *)
(* One action is one event processed by the component: a user event, a     *)
(* recognizer or synthesizer callback, or the continuation of sendMessage  *)
(* after its await.  A handler reads the state of the render it was        *)
(* created in; the continuation of sendMessage therefore reads the values  *)
(* captured when sendMessage was invoked (its closure), not the current    *)
(* ones.  The closure is kept with the request in flight.                  *)
(***************************************************************************)
EXTENDS Integers, Sequences, FiniteSets, TLC

\* ---------------------------------------------------------------- bounds
MaxRequests == 2      \* chat requests issued in one run
MaxClock    == 1      \* readings of Date.now() are 0..MaxClock
MaxHistory  == 3      \* exchanges already in the store in SpecContext

\* ------------------------------------------------------ program constants
ContextSize == 5      \* messages.slice(-5)
RateFast    == 12     \* utterance.rate 1.2, in tenths
RateSlow    == 8      \* utterance.rate 0.8, in tenths
RateNormal  == 10     \* utterance.rate 1.0, in tenths
Pitch       == 10     \* utterance.pitch 1.0, in tenths
Volume      == 8      \* utterance.volume 0.8, in tenths

\* keys of AI_MODELS the user picks among (two of the six)
Personas == {"claude", "gpt4"}

ApologyText == <<"S", "o", "r", "r", "y">>
ReplyText   == <<"r">>

\* Texts are sequences of characters, so that trim() is computed.
TypedTexts  == {<< >>, <<" ">>, <<" ", "a">>}
Transcripts == {<<" ", "a">>}

\* data.response.voice_model: absent ("none") or a profile with a tempo
VoiceModels == {"none", "fast"}

\* every shape of data.response.voice_model: absent, each tempo the code
\* names, another tempo, and a profile without a tempo
AllVoiceModels == {"none", "fast", "slow_moderate", "normal", "no_tempo"}

\* Ways the chat request ends other than a readable success response:
\* response.ok false, fetch rejects, response.json() rejects.
Failures == {"status", "network", "body"}

VARIABLES
    messages,          \* useState([])       line 78
    inputMessage,      \* useState('')       line 79
    isLoading,         \* useState(false)    line 80
    selectedModel,     \* useState('claude') line 81
    isListening,       \* useState(false)    line 82
    isSpeaking,        \* useState(false)    line 83
    recognitionRef,    \* TRUE iff recognitionRef.current was set (line 111)
    synthSupported,    \* 'speechSynthesis' in window
    recState,          \* the recognizer: "inactive", "capturing", "ending"
    utterances,        \* the synthesizer's queue of utterances
    inflight,          \* chat requests issued and not completed, each with
                       \* the closure of the sendMessage call awaiting it
    issued,            \* number of chat requests issued so far
    now                \* the reading of Date.now()

vars == <<messages, inputMessage, isLoading, selectedModel, isListening,
          isSpeaking, recognitionRef, synthSupported, recState, utterances,
          inflight, issued, now>>

\* The component's own state: everything but the clock.
appState == <<messages, inputMessage, isLoading, selectedModel, isListening,
              isSpeaking, recState, utterances, inflight, issued>>

\* --------------------------------------------------------------- helpers
IsSpace(c) == c = " "

RECURSIVE TrimStart(_)
TrimStart(s) ==
    IF s = << >> THEN << >>
    ELSE IF IsSpace(Head(s)) THEN TrimStart(Tail(s)) ELSE s

RECURSIVE TrimEnd(_)
TrimEnd(s) ==
    IF s = << >> THEN << >>
    ELSE IF IsSpace(s[Len(s)]) THEN TrimEnd(SubSeq(s, 1, Len(s) - 1)) ELSE s

\* String.prototype.trim
Trim(s) == TrimEnd(TrimStart(s))

\* Array.prototype.slice(begin) for any integer begin
Slice(s, begin) ==
    LET len == Len(s)
        k   == IF begin < 0
               THEN (IF len + begin < 0 THEN 0 ELSE len + begin)
               ELSE (IF begin > len THEN len ELSE begin)
    IN  SubSeq(s, k + 1, len)

\* RecentContext taking the first messages, slice(0, 5)
RecentContextFromStart(msgs) ==
    SubSeq(msgs, 1, IF Len(msgs) > ContextSize THEN ContextSize ELSE Len(msgs))

\* conversation_history: messages.slice(-5), of the messages of the render
\* sendMessage was created in
RecentContext(msgs) == Slice(msgs, 0 - ContextSize)

\* SendAccepted testing inputMessage itself, not inputMessage.trim()
SendAcceptedUntrimmed(input, loading) == input # << >> /\ ~loading

\* SendAccepted without the isLoading test
SendAcceptedIgnoringLoading(input, loading) == Trim(input) # << >>

\* the guard of sendMessage: !( !inputMessage.trim() || isLoading )
SendAccepted(input, loading) == Trim(input) # << >> /\ ~loading

\* Appended putting the message in front, [m, ...prev]
Prepended(msgs, m) == <<m>> \o msgs

\* Appended had the call of setMessages been left out
Dropped(msgs, m) == msgs

\* setMessages(prev => [...prev, m])
Appended(msgs, m) == Append(msgs, m)

UserMessage(input, t) ==
    [id |-> t, text |-> input, sender |-> "user", model |-> "none",
     voiceModel |-> "none", error |-> FALSE]

AiMessage(req, voice, t) ==
    [id |-> t + 1, text |-> ReplyText, sender |-> "ai",
     model |-> req.selected_model, voiceModel |-> voice, error |-> FALSE]

ErrorMessage(t) ==
    [id |-> t + 1, text |-> ApologyText, sender |-> "ai", model |-> "error",
     voiceModel |-> "none", error |-> TRUE]

\* ChatRequest with the initial persona instead of the selected one
ChatRequestInitialModel(input, model, msgs, speaking) ==
    [message |-> input, selected_model |-> "claude",
     conversation_history |-> RecentContext(msgs),
     closureIsSpeaking |-> speaking]

\* body of the POST /chat request, with the closure of the call
ChatRequest(input, model, msgs, speaking) ==
    [message |-> input, selected_model |-> model,
     conversation_history |-> RecentContext(msgs),
     closureIsSpeaking |-> speaking]

\* AutoPlay without the isSpeaking test
AutoPlayIgnoringSpeaking(voice, req) == voice # "none"

\* if (data.response.voice_model && !isSpeaking), isSpeaking of the closure
AutoPlay(voice, req) == voice # "none" /\ ~req.closureIsSpeaking

\* Rate with the two tempos exchanged
RateExchanged(tempo) ==
    IF tempo = "fast" THEN RateSlow
    ELSE IF tempo = "slow_moderate" THEN RateFast ELSE RateNormal

\* utterance.rate / pitch / volume
Rate(tempo) ==
    IF tempo = "fast" THEN RateFast
    ELSE IF tempo = "slow_moderate" THEN RateSlow ELSE RateNormal

Utterance(voice) == [rate |-> Rate(voice), pitch |-> Pitch, volume |-> Volume]

\* disabled={isLoading} of the Input and of the mic button
InputEnabled == ~isLoading

\* MicEnabled had the mic button no disabled attribute
MicAlwaysEnabled == TRUE

MicEnabled == ~isLoading

\* ------------------------------------------------------------------ Init
InitCommon ==
    /\ inputMessage = << >>
    /\ isLoading = FALSE
    /\ selectedModel = "claude"
    /\ isListening = FALSE
    /\ isSpeaking = FALSE
    /\ recognitionRef \in BOOLEAN
    /\ synthSupported \in BOOLEAN
    /\ recState = "inactive"
    /\ utterances = << >>
    /\ inflight = << >>
    /\ issued = 0
    /\ now = 0

Init ==
    /\ messages = << >>
    /\ InitCommon

\* --------------------------------------------------------------- actions
\* the clock advances between events
Tick ==
    /\ now < MaxClock
    /\ now' = now + 1
    /\ UNCHANGED appState
    /\ UNCHANGED <<recognitionRef, synthSupported>>

\* onChange of the Input, which is disabled while isLoading
onChange(text) ==
    /\ InputEnabled
    /\ inputMessage' = text
    /\ UNCHANGED <<messages, isLoading, selectedModel, isListening, isSpeaking,
                   recognitionRef, synthSupported, recState, utterances,
                   inflight, issued, now>>

\* onClick of a persona button
setSelectedModel(key) ==
    /\ selectedModel' = key
    /\ UNCHANGED <<messages, inputMessage, isLoading, isListening, isSpeaking,
                   recognitionRef, synthSupported, recState, utterances,
                   inflight, issued, now>>

\* sendMessage up to its await: the guard, the optimistic append, the fetch.
\* It is called from handleKeyPress and from the send button; the model lets
\* it be called in every state, so that its own guard decides.
sendMessage ==
    /\ IF SendAccepted(inputMessage, isLoading)
       THEN /\ issued < MaxRequests
            /\ messages' = Appended(messages, UserMessage(inputMessage, now))
            /\ inputMessage' = << >>
            /\ isLoading' = TRUE
            /\ inflight' = Append(inflight,
                   ChatRequest(inputMessage, selectedModel, messages, isSpeaking))
            /\ issued' = issued + 1
       ELSE UNCHANGED <<messages, inputMessage, isLoading, inflight, issued>>
    /\ UNCHANGED <<selectedModel, isListening, isSpeaking, recognitionRef,
                   synthSupported, recState, utterances, now>>

\* synthesizeVoice, called from the continuation of sendMessage
SpeakingAfter(play) == IF play THEN TRUE ELSE isSpeaking

UtterancesAfter(play, voice) ==
    IF play /\ synthSupported THEN Append(utterances, Utterance(voice))
    ELSE utterances

\* sendMessage after its await, response.ok and a readable body
chatResponse(voice) ==
    /\ inflight # << >>
    /\ LET req == Head(inflight) IN
        /\ messages' = Appended(messages, AiMessage(req, voice, now))
        /\ isSpeaking' = SpeakingAfter(AutoPlay(voice, req))
        /\ utterances' = UtterancesAfter(AutoPlay(voice, req), voice)
    /\ inflight' = Tail(inflight)
    /\ isLoading' = FALSE
    /\ UNCHANGED <<inputMessage, selectedModel, isListening, recognitionRef,
                   synthSupported, recState, issued, now>>

\* CaughtMessages had the message been appended before the body was read
CaughtMessagesAfterAppend(failure, t) ==
    IF failure = "body"
    THEN <<[id |-> t + 1, text |-> ReplyText, sender |-> "ai",
            model |-> "none", voiceModel |-> "none", error |-> FALSE],
           ErrorMessage(t)>>
    ELSE <<ErrorMessage(t)>>

\* what the catch block appends
CaughtMessages(failure, t) == <<ErrorMessage(t)>>

\* LoadingAfterCompletion had setIsLoading(false) ended the try block instead
LoadingAfterCompletionInTry(failure) == TRUE

\* setIsLoading of the finally block
LoadingAfterCompletion(failure) == FALSE

\* sendMessage after its await, the catch and finally blocks
chatFailure(failure) ==
    /\ inflight # << >>
    /\ messages' = messages \o CaughtMessages(failure, now)
    /\ inflight' = Tail(inflight)
    /\ isLoading' = LoadingAfterCompletion(failure)
    /\ UNCHANGED <<inputMessage, selectedModel, isListening, isSpeaking,
                   recognitionRef, synthSupported, recState, utterances,
                   issued, now>>

\* utterance.onend
utteranceEnd ==
    /\ utterances # << >>
    /\ utterances' = Tail(utterances)
    /\ isSpeaking' = FALSE
    /\ UNCHANGED <<messages, inputMessage, isLoading, selectedModel,
                   isListening, recognitionRef, synthSupported, recState,
                   inflight, issued, now>>

\* utterance.onerror
utteranceError ==
    /\ utterances # << >>
    /\ utterances' = Tail(utterances)
    /\ isSpeaking' = FALSE
    /\ UNCHANGED <<messages, inputMessage, isLoading, selectedModel,
                   isListening, recognitionRef, synthSupported, recState,
                   inflight, issued, now>>

\* stopSpeaking had it toggled isSpeaking
stopSpeakingToggling ==
    /\ ~isLoading \/ ~isSpeaking
    /\ isSpeaking' = ~isSpeaking
    /\ utterances' = << >>
    /\ UNCHANGED <<messages, inputMessage, isLoading, selectedModel,
                   isListening, recognitionRef, synthSupported, recState,
                   inflight, issued, now>>

\* stopSpeaking: the send button while isSpeaking (disabled while isLoading);
\* also callable when nothing is speaking
stopSpeaking ==
    /\ ~isLoading \/ ~isSpeaking
    /\ IF synthSupported
       THEN /\ utterances' = << >>
            /\ isSpeaking' = FALSE
       ELSE UNCHANGED <<utterances, isSpeaking>>
    /\ UNCHANGED <<messages, inputMessage, isLoading, selectedModel,
                   isListening, recognitionRef, synthSupported, recState,
                   inflight, issued, now>>

\* the guard of startListening
StartAllowed(ref, listening) == ref /\ ~listening

\* startListening: the mic button, disabled while isLoading.  start() on a
\* recognizer that has not ended yet throws and leaves it as it is.
startListening ==
    /\ MicEnabled
    /\ IF StartAllowed(recognitionRef, isListening)
       THEN /\ isListening' = TRUE
            /\ recState' = IF recState = "inactive" THEN "capturing" ELSE recState
       ELSE UNCHANGED <<isListening, recState>>
    /\ UNCHANGED <<messages, inputMessage, isLoading, selectedModel,
                   isSpeaking, recognitionRef, synthSupported, utterances,
                   inflight, issued, now>>

\* stopListening: the mic button, disabled while isLoading.  stop() lets the
\* recognizer finish: it may still deliver a result, and then ends.
stopListening ==
    /\ MicEnabled
    /\ IF recognitionRef /\ isListening
       THEN isListening' = FALSE
       ELSE UNCHANGED isListening
    /\ UNCHANGED <<messages, inputMessage, isLoading, selectedModel,
                   isSpeaking, recognitionRef, synthSupported, recState,
                   utterances, inflight, issued, now>>

\* onresult had it submitted the transcript as well
onresultSubmitting(transcript) ==
    /\ recState = "capturing"
    /\ recState' = "ending"
    /\ isListening' = FALSE
    /\ issued < MaxRequests
    /\ ~isLoading
    /\ inputMessage' = << >>
    /\ messages' = Appended(messages, UserMessage(transcript, now))
    /\ isLoading' = TRUE
    /\ inflight' = Append(inflight,
           ChatRequest(transcript, selectedModel, messages, isSpeaking))
    /\ issued' = issued + 1
    /\ UNCHANGED <<selectedModel, isSpeaking, recognitionRef, synthSupported,
                   utterances, now>>

\* recognition.onresult
onresult(transcript) ==
    /\ recState = "capturing"
    /\ recState' = "ending"
    /\ inputMessage' = transcript
    /\ isListening' = FALSE
    /\ UNCHANGED <<messages, isLoading, selectedModel, isSpeaking,
                   recognitionRef, synthSupported, utterances, inflight,
                   issued, now>>

\* onerror had it written an empty transcript
onerrorClearingInput ==
    /\ recState = "capturing"
    /\ recState' = "ending"
    /\ inputMessage' = << >>
    /\ isListening' = FALSE
    /\ UNCHANGED <<messages, isLoading, selectedModel, isSpeaking,
                   recognitionRef, synthSupported, utterances, inflight,
                   issued, now>>

\* recognition.onerror
onerror ==
    /\ recState = "capturing"
    /\ recState' = "ending"
    /\ isListening' = FALSE
    /\ UNCHANGED <<messages, inputMessage, isLoading, selectedModel,
                   isSpeaking, recognitionRef, synthSupported, utterances,
                   inflight, issued, now>>

\* recognition.onend
onend ==
    /\ recState # "inactive"
    /\ recState' = "inactive"
    /\ isListening' = FALSE
    /\ UNCHANGED <<messages, inputMessage, isLoading, selectedModel,
                   isSpeaking, recognitionRef, synthSupported, utterances,
                   inflight, issued, now>>

Next ==
    \/ Tick
    \/ \E text \in TypedTexts : onChange(text)
    \/ \E key \in Personas : setSelectedModel(key)
    \/ sendMessage
    \/ \E voice \in VoiceModels : chatResponse(voice)
    \/ \E failure \in Failures : chatFailure(failure)
    \/ utteranceEnd
    \/ utteranceError
    \/ stopSpeaking
    \/ startListening
    \/ stopListening
    \/ \E transcript \in Transcripts : onresult(transcript)
    \/ onerror
    \/ onend

Spec == Init /\ [][Next]_vars

\* the backend answers every request, the recognizer ends every capture and
\* the synthesizer finishes every utterance
Completion ==
    \/ \E voice \in VoiceModels : chatResponse(voice)
    \/ \E failure \in Failures : chatFailure(failure)

FairSpec ==
    /\ Init
    /\ [][Next]_vars
    /\ WF_vars(Completion)
    /\ WF_vars(onend)
    /\ WF_vars(utteranceEnd \/ utteranceError)

\* The backend and the synthesizer alone, the recognizer being absent, with
\* every shape of voice profile in the responses.
InitTempo ==
    /\ Init
    /\ ~recognitionRef

NextTempo ==
    \/ Tick
    \/ \E text \in TypedTexts : onChange(text)
    \/ sendMessage
    \/ \E voice \in AllVoiceModels : chatResponse(voice)
    \/ \E failure \in Failures : chatFailure(failure)
    \/ utteranceEnd
    \/ utteranceError
    \/ stopSpeaking

SpecTempo == InitTempo /\ [][NextTempo]_vars

\* A store that already holds k exchanges, with increasing ids before 0.
HistoryMessage(j, n) ==
    IF j % 2 = 1
    THEN UserMessage(<<" ", "a">>, 2 * (j - n) - 2)
    ELSE [id |-> 2 * (j - n) - 2, text |-> ReplyText, sender |-> "ai",
          model |-> "claude", voiceModel |-> "none", error |-> FALSE]

History(k) == [j \in 1..(2 * k) |-> HistoryMessage(j, 2 * k)]

InitContext ==
    /\ messages \in {History(0), History(MaxHistory)}
    /\ InitCommon

SpecContext == InitContext /\ [][Next]_vars

\* ----------------------------------------------------------------- claims
Last(s) == s[Len(s)]

\* C1: a sendMessage call made while a chat request is in flight changes
\* nothing, and at most one chat request is in flight at any time.
SubmissionGuard ==
    /\ [][(sendMessage /\ isLoading) => UNCHANGED vars]_vars
    /\ [](Len(inflight) <= 1)

\* a request is in flight and the buffer holds a text sendMessage would
\* accept but for isLoading
SubmissionGuardWitness ==
    /\ isLoading
    /\ Len(inflight) = 1
    /\ Trim(inputMessage) # << >>
    /\ issued < MaxRequests
    /\ ENABLED sendMessage

\* C2: a failed chat request appends exactly one assistant message with the
\* error flag and the apology text and nothing else, issues no new request
\* and leaves isLoading false.
BackendFailurePath ==
    [][\A failure \in Failures : chatFailure(failure) =>
          /\ Len(messages') = Len(messages) + 1
          /\ SubSeq(messages', 1, Len(messages)) = messages
          /\ Last(messages').error
          /\ Last(messages').sender = "ai"
          /\ Last(messages').text = ApologyText
          /\ issued' = issued
          /\ inflight' = << >>
          /\ ~isLoading']_vars

\* a request has failed: the store ends with the error message
BackendFailureWitness ==
    /\ messages # << >>
    /\ Last(messages).error
    /\ ~isLoading
    /\ inflight = << >>

\* C3: once playback has been triggered, isSpeaking eventually becomes false
\* again, also when the synthesizer is missing or the utterance fails.
PlaybackReturnsToIdle == isSpeaking ~> ~isSpeaking

\* C4: when the backend answers every request and the recognizer ends every
\* capture, isLoading and isListening each eventually become false again;
\* isLoading becomes false only by the completion of the request.
\* (P ~> ~P says the same as []<>~P: from every state, ~P holds now or later.)
AwaitingAndListeningEnd ==
    /\ []<>~isLoading
    /\ []<>~isListening
    /\ [][(isLoading /\ ~isLoading') => Completion]_vars

\* a request is in flight while a capture is running
AwaitingAndListeningWitness ==
    /\ isLoading
    /\ inflight # << >>
    /\ isListening
    /\ recState = "capturing"

\* C5: the ids along the message list are strictly increasing.
IdsStrictlyIncreasing ==
    \A i \in 1..(Len(messages) - 1) : messages[i].id < messages[i + 1].id

\* the last min(n, Len(s)) elements of s, in order
LastN(s, n) == SubSeq(s, (IF Len(s) > n THEN Len(s) - n ELSE 0) + 1, Len(s))

Front(s) == SubSeq(s, 1, Len(s) - 1)

\* C6 as stated: the conversation_history of the request in flight is the
\* last min(5, length) messages of the store with the user message of the
\* submission in it.
ContextIncludesSubmission ==
    inflight # << >> =>
        Head(inflight).conversation_history = LastN(messages, ContextSize)

\* C6: the conversation_history of the request in flight is the last
\* min(5, length) messages, in order and never more than 5, of the store as
\* it stood before the user message of the submission was appended.
ContextPrecedesSubmission ==
    inflight # << >> =>
        /\ Head(inflight).conversation_history =
               LastN(Front(messages), ContextSize)
        /\ Len(Head(inflight).conversation_history) <= ContextSize
        /\ Last(messages).sender = "user"
        /\ Last(messages).text = Head(inflight).message

\* a request issued from a store of more than five messages
ContextWitness ==
    /\ inflight # << >>
    /\ Len(messages) > ContextSize + 1
    /\ Len(Head(inflight).conversation_history) = ContextSize
    /\ Head(inflight).conversation_history # messages

\* an utterance is added to the synthesizer's queue
PlaybackStarted == Len(utterances') > Len(utterances)

\* C7: with a synthesizer present, processing a successful response starts
\* playback if and only if the response carries a voice profile and no
\* playback is active when the response is processed.
AutoPlayDecision ==
    [][\A voice \in VoiceModels :
          (chatResponse(voice) /\ synthSupported) =>
              (PlaybackStarted <=> (voice # "none" /\ ~isSpeaking))]_vars

Active(flag) == IF flag THEN 1 ELSE 0

\* C8 as stated: at most one of isListening, isLoading and isSpeaking holds.
ModesMutuallyExclusive ==
    Active(isListening) + Active(isLoading) + Active(isSpeaking) <= 1

\* C8: no mode is entered while a chat request is in flight: a step that
\* makes isListening or isSpeaking true ends with isLoading false, and a step
\* that makes isLoading true starts with isLoading false.
ModesEnteredOutsideLoading ==
    [][/\ (~isListening /\ isListening') => (~isLoading /\ ~isLoading')
       /\ (~isSpeaking /\ isSpeaking') => ~isLoading'
       /\ (inflight' # inflight /\ isLoading') => ~isLoading]_vars

\* the three modes overlap
ModesOverlapWitness ==
    /\ isListening
    /\ isLoading
    /\ isSpeaking

\* a submission is accepted: a request is issued
Submitted == Len(inflight') > Len(inflight)

\* C9: a persona can be selected in every state; selecting one changes
\* selectedModel and nothing else of the session, the request in flight
\* included; the next accepted submission carries the selected persona.
PersonaSwitchFrame ==
    /\ [](\A key \in Personas : ENABLED setSelectedModel(key))
    /\ [][\A key \in Personas : setSelectedModel(key) =>
             /\ selectedModel' = key
             /\ UNCHANGED <<messages, inputMessage, isLoading, isListening,
                            isSpeaking, inflight, utterances, recState>>]_vars
    /\ [][Submitted => Last(inflight').selected_model = selectedModel]_vars

\* the persona was switched while a request carrying another one is in flight
PersonaSwitchWitness ==
    /\ inflight # << >>
    /\ Head(inflight).selected_model = "gpt4"
    /\ selectedModel = "claude"
    /\ isLoading

\* C10: while a chat request is in flight the pending-input buffer is empty.
BufferEmptyWhileLoading == isLoading => inputMessage = << >>

\* C11: a recognizer error or end while isListening makes isListening false
\* and leaves the buffer, the message list, isLoading and isSpeaking as they
\* are; nothing is submitted.
CaptureErrorOrEnd ==
    [][((onerror \/ onend) /\ isListening) =>
          /\ ~isListening'
          /\ UNCHANGED <<inputMessage, messages, isLoading, isSpeaking,
                         inflight, issued>>]_vars

\* a capture is running with a text in the buffer
CaptureErrorWitness ==
    /\ isListening
    /\ recState = "capturing"
    /\ inputMessage # << >>
    /\ ENABLED onerror

\* C12: stopListening while isListening is false and stopSpeaking while
\* isSpeaking is false change nothing; after either one the flag is false
\* (or nothing was changed), so a second call changes nothing.
StopIdempotent ==
    /\ [][(stopListening /\ ~isListening) => UNCHANGED vars]_vars
    /\ [][(stopSpeaking /\ ~isSpeaking) => UNCHANGED vars]_vars
    /\ [][stopListening => (~isListening' \/ UNCHANGED vars)]_vars
    /\ [][stopSpeaking => (~isSpeaking' \/ UNCHANGED vars)]_vars

\* a playback was started and is over, no capture is running
StopIdempotentWitness ==
    /\ synthSupported
    /\ recognitionRef
    /\ messages # << >>
    /\ Last(messages).voiceModel # "none"
    /\ ~isSpeaking
    /\ ~isListening
    /\ ENABLED stopSpeaking
    /\ ENABLED stopListening

\* the rate the claim gives for a voice profile, in tenths
ClaimedRate(voice) ==
    CASE voice = "fast" -> 12
      [] voice = "slow_moderate" -> 8
      [] OTHER -> 10

\* C13: the utterance started for a voice profile has rate 1.2 for tempo
\* fast, 0.8 for slow_moderate and 1.0 for any other or no tempo, pitch 1.0
\* and volume 0.8.
TempoMapping ==
    [][\A voice \in AllVoiceModels :
          (chatResponse(voice) /\ PlaybackStarted) =>
              /\ Last(utterances').rate = ClaimedRate(voice)
              /\ Last(utterances').pitch = 10
              /\ Last(utterances').volume = 8]_vars

\* an utterance at rate 0.8 plays for a slow_moderate profile
TempoMappingWitness ==
    /\ utterances # << >>
    /\ Head(utterances).rate = 8
    /\ Last(messages).voiceModel = "slow_moderate"

\* C14: the synthesizer never holds more than one utterance, and an
\* utterance is started only when none is active.
AtMostOnePlayback ==
    /\ [](Len(utterances) <= 1)
    /\ [][PlaybackStarted => utterances = << >>]_vars

\* a request submitted during a playback is in flight while it still plays
AtMostOnePlaybackWitness ==
    /\ Len(utterances) = 1
    /\ inflight # << >>
    /\ Head(inflight).closureIsSpeaking

\* C15: every step leaves the message list as it is or adds exactly one
\* message at its end.
AppendOnly ==
    [][\/ messages' = messages
       \/ /\ Len(messages') = Len(messages) + 1
          /\ SubSeq(messages', 1, Len(messages)) = messages]_vars

\* the store holds a completed exchange and the next user message
AppendOnlyWitness ==
    /\ Len(messages) = 3
    /\ messages[1].sender = "user"
    /\ messages[2].sender = "ai"
    /\ messages[3].sender = "user"

TranscriptNotSubmitted ==
    /\ [][\A transcript \in Transcripts : onresult(transcript) =>
             /\ inputMessage' = transcript
             /\ ~isListening'
             /\ UNCHANGED <<messages, inflight, issued, isLoading>>]_vars
    /\ [][Submitted => sendMessage]_vars

\* a transcript arrived during a round-trip (the Input is disabled then and
\* the buffer was cleared by the submission): still one message, one request
TranscriptWitness ==
    /\ isLoading
    /\ inputMessage \in Transcripts
    /\ recState = "ending"
    /\ ~isListening
    /\ issued = 1
    /\ Len(messages) = 1
    /\ Len(inflight) = 1

\* C18: isListening never becomes true in a state with a chat request in
\* flight, and startListening while isListening changes nothing.
CaptureStartGuard ==
    /\ [][(~isListening /\ isListening') => (~isLoading /\ inflight = << >>)]_vars
    /\ [][(startListening /\ isListening) => UNCHANGED vars]_vars

\* a request is in flight, a recognizer exists and no capture is running
CaptureStartWitness ==
    /\ isLoading
    /\ recognitionRef
    /\ ~isListening
    /\ recState = "inactive"

\* C19: sendMessage with an empty or whitespace-only buffer changes nothing,
\* and every user message in the store has a text that is not blank.
BlankSubmissionNoOp ==
    /\ [][(sendMessage /\ Trim(inputMessage) = << >>) => UNCHANGED vars]_vars
    /\ [](\A i \in 1..Len(messages) :
             messages[i].sender = "user" => Trim(messages[i].text) # << >>)

\* the buffer holds only a blank and no request is in flight
BlankSubmissionWitness ==
    /\ inputMessage = <<" ">>
    /\ ~isLoading
    /\ issued < MaxRequests
    /\ ENABLED sendMessage

\* C20: the message list alternates user and assistant messages, starting
\* with a user message; its length is twice the number of completed requests
\* plus the number of requests in flight; isLoading holds exactly when one
\* request is in flight, and the last message is then a user message.
RequestResponsePairing ==
    /\ \A i \in 1..Len(messages) :
          messages[i].sender = (IF i % 2 = 1 THEN "user" ELSE "ai")
    /\ Len(messages) = 2 * (issued - Len(inflight)) + Len(inflight)
    /\ isLoading <=> Len(inflight) = 1
    /\ Len(inflight) <= 1
    /\ isLoading => Last(messages).sender = "user"

\* the second request is in flight after a completed exchange
PairingWitness ==
    /\ Len(messages) = 3
    /\ isLoading
    /\ issued = 2
    /\ Len(inflight) = 1

====
